---- MODULE Spec2Model ----
(***************************************************************************)
(* Model of the data layer of SpotifyMusicExplorer:                        *)
(*   src/utils/data_processing.py  load_all_data and the query functions   *)
(*   src/app.py                    the start-up code that calls them       *)
(*                                                                         *)
(* A DataFrame is a record [cols, rows]: cols is the set of column labels  *)
(* and rows the sequence of rows, each a function from cols to a cell.     *)
(* A cell is Null (pandas NaN/None), written <<>>, or a one-element tuple  *)
(* <<v>> holding the value.  Fractions (group means) are kept exact as     *)
(* records [sum, n].                                                       *)
(***************************************************************************)
EXTENDS Integers, Sequences, FiniteSets, TLC

VARIABLES
    tracks_csv,     \* contents of data/tracks.csv, or NoFile
    spotify_csv,    \* contents of data/spotify_tracks.csv, or NoFile
    all_data_df,    \* app.py's all_data_df (None until load_all_data returns)
    merge_on,       \* load_all_data's join keys: [left, right] sets of columns
    pc,             \* position of app.py: start, loaded, ready, answered, stopped,
                    \* crashed
    raised,         \* the exception that left load_all_data, or "none"
    call,           \* the last query call: function name and arguments
    result          \* what the last query call returned or raised

vars == <<tracks_csv, spotify_csv, all_data_df, merge_on, pc, raised, call, result>>

----------------------------------------------------------------------------
(* Bounds of the model *)

\* rows of data/tracks.csv
MaxTracksRows == 1
\* rows of data/spotify_tracks.csv
MaxSpotifyRows == 2
\* rows of a table handed to the chart queries
MaxRows == 2
\* rows of a table handed to get_songs_by_vibe
MaxVibeRows == 2
\* largest top_n / num_songs argument
MaxTopN == 3

----------------------------------------------------------------------------
(* Cells, rows and frames *)

Null == <<>>
None == [none |-> TRUE]
\* Python's None where a cell could stand: a value no cell holds
NoneCell == <<"None", "None">>
NoFile == [nofile |-> TRUE]
NoCall == [fn |-> "none"]

Cell(v) == <<v>>
IsNull(c) == c = Null
Val(c) == c[1]

\* pd.DataFrame()
EmptyDataFrame == [cols |-> {}, rows |-> <<>>]

\* DataFrame.empty: some axis has length 0
Empty(df) == df.cols = {} \/ Len(df.rows) = 0

\* a function result: returned value or raised exception
Ok(v) == [raised |-> "none", value |-> v]
Raise(e) == [raised |-> e, value |-> None]

Range(s) == {s[i] : i \in 1..Len(s)}

RECURSIVE SelectIdx(_, _, _)
\* the indices i >= from of s, in order, for which keep[i]
SelectIdx(keep, from, n) ==
    IF from > n THEN <<>>
    ELSE IF keep[from] THEN <<from>> \o SelectIdx(keep, from + 1, n)
    ELSE SelectIdx(keep, from + 1, n)

\* df[mask]: the rows whose mask entry is true, in order
Filter(df, keep) ==
    LET idx == SelectIdx(keep, 1, Len(df.rows))
    IN [cols |-> df.cols, rows |-> [k \in 1..Len(idx) |-> df.rows[idx[k]]]]

\* df.head(n), n >= 0
HeadN(s, n) == IF n >= Len(s) THEN s ELSE SubSeq(s, 1, n)

\* df[[c1, c2, ...]]
Project(df, cs) ==
    [cols |-> cs, rows |-> [i \in 1..Len(df.rows) |-> [c \in cs |-> df.rows[i][c]]]]

----------------------------------------------------------------------------
(* load_all_data *)

\* pd.read_csv(path): the file's table; FileNotFoundError when there is no file,
\* EmptyDataError ("No columns to parse from file") when the file has no header
read_csv(file) ==
    IF file = NoFile THEN Raise("FileNotFoundError")
    ELSE IF file.cols = {} THEN Raise("EmptyDataError")
    ELSE Ok(file)

\* df.rename(columns={old: new}), guarded by `if old in df.columns`
Rename(df, old, new) ==
    IF old \in df.cols
    THEN LET cs == (df.cols \ {old}) \cup {new}
         IN [cols |-> cs,
             rows |-> [i \in 1..Len(df.rows) |->
                        [c \in cs |-> IF c = new THEN df.rows[i][old] ELSE df.rows[i][c]]]]
    ELSE df

\* df[c] = None
AddNullColumn(df, col) ==
    [cols |-> df.cols \cup {col},
     rows |-> [i \in 1..Len(df.rows) |->
                [c \in df.cols \cup {col} |-> IF c = col THEN Null ELSE df.rows[i][c]]]]

\* the two sources after the renames and the year placeholder of lines 15-28
NormalizeTracks(df) == Rename(Rename(df, "name", "title"), "artists", "artist")

NormalizeSpotify(tracks_df, df) ==
    LET renamed == Rename(Rename(df, "track_name", "title"), "artists", "artist")
    IN IF "year" \in tracks_df.cols /\ "year" \notin renamed.cols
       THEN AddNullColumn(renamed, "year")
       ELSE renamed

\* the label pandas gives a right-hand column that collides with a left-hand one
Suffixed(c) == c \o "_spotify"

\* the key pairs (left column, right column) of a join
KeyPairs(left_on, right_on) ==
    IF left_on = right_on THEN {<<k, k>> : k \in left_on}
    ELSE left_on \X right_on

\* pandas matches two rows when every key pair is equal (missing keys match each other)
RowsMatch(lrow, rrow, pairs) == \A p \in pairs : lrow[p[1]] = rrow[p[2]]

RECURSIVE Flatten(_)
Flatten(ss) == IF ss = <<>> THEN <<>> ELSE ss[1] \o Flatten(Tail(ss))

\* how="left": a left row no right row matches is kept, its right-hand cells missing
UnmatchedInner(lrow, leftcols, outcols) == <<>>

UnmatchedBlock(lrow, leftcols, outcols) ==
    <<[c \in outcols |-> IF c \in leftcols THEN lrow[c] ELSE Null]>>

\* pd.merge(left, right, how="left", suffixes=("", "_spotify")) on the given keys.
\* Keys named alike on both sides are taken from the left; every other right-hand
\* column that collides with a left-hand one is suffixed.
MergeLeft(left, right, left_on, right_on) ==
    LET pairs   == KeyPairs(left_on, right_on)
        shared  == IF left_on = right_on THEN left_on ELSE {}
        rcols   == right.cols \ shared
        overlap == left.cols \cap rcols
        label(c) == IF c \in overlap THEN Suffixed(c) ELSE c
        outcols == left.cols \cup {label(c) : c \in rcols}
        source(c) == CHOOSE r \in rcols : label(r) = c
        with(lrow, rrow) ==
            [c \in outcols |-> IF c \in left.cols THEN lrow[c] ELSE rrow[source(c)]]
        matched(i) ==
            SelectIdx([j \in 1..Len(right.rows) |->
                          RowsMatch(left.rows[i], right.rows[j], pairs)],
                      1, Len(right.rows))
        block(i) ==
            IF matched(i) = <<>> THEN UnmatchedBlock(left.rows[i], left.cols, outcols)
            ELSE [k \in 1..Len(matched(i)) |-> with(left.rows[i], right.rows[matched(i)[k]])]
    IN [cols |-> outcols,
        rows |-> Flatten([i \in 1..Len(left.rows) |-> block(i)])]

CompositeKeysBoth(tracks_df, spotify_df) ==
    IF {"title", "artist"} \subseteq (tracks_df.cols \cap spotify_df.cols)
    THEN {"title", "artist"} ELSE {}

\* line 41: the composite keys both sources have
CompositeKeys(tracks_df, spotify_df) ==
    {c \in {"title", "artist"} : c \in tracks_df.cols /\ c \in spotify_df.cols}

\* line 31: both sources expose the identifier
HasIdKeys(tracks_df, spotify_df) ==
    "id" \in tracks_df.cols /\ "track_id" \in spotify_df.cols

\* lines 31-50: the join keys, or none
JoinKeys(tracks_df, spotify_df) ==
    IF HasIdKeys(tracks_df, spotify_df)
    THEN [left |-> {"id"}, right |-> {"track_id"}]
    ELSE [left  |-> CompositeKeys(tracks_df, spotify_df),
          right |-> CompositeKeys(tracks_df, spotify_df)]

NoKeys == [left |-> {}, right |-> {}]

\* lines 53-54: merged["year"] = tracks_df["year"], aligned on the row index
GuaranteeYear(merged, tracks_df) ==
    IF "year" \notin merged.cols /\ "year" \in tracks_df.cols
    THEN [cols |-> merged.cols \cup {"year"},
          rows |-> [i \in 1..Len(merged.rows) |->
                     [c \in merged.cols \cup {"year"} |->
                        IF c # "year" THEN merged.rows[i][c]
                        ELSE IF i <= Len(tracks_df.rows) THEN tracks_df.rows[i]["year"]
                        ELSE Null]]]
    ELSE merged

\* load_all_data(): [raised, value, keys]
load_all_data(tracks_file, spotify_file) ==
    LET t == read_csv(tracks_file)
        s == read_csv(spotify_file)
    IN IF t.raised # "none" THEN [raised |-> t.raised, value |-> None, keys |-> NoKeys]
       ELSE IF s.raised # "none" THEN [raised |-> s.raised, value |-> None, keys |-> NoKeys]
       ELSE LET tracks_df  == NormalizeTracks(t.value)
                spotify_df == NormalizeSpotify(tracks_df, s.value)
                keys       == JoinKeys(tracks_df, spotify_df)
            IN IF keys.left = {}
               THEN [raised |-> "KeyError", value |-> None, keys |-> NoKeys]
               ELSE [raised |-> "none",
                     value  |-> GuaranteeYear(
                                   MergeLeft(tracks_df, spotify_df, keys.left, keys.right),
                                   tracks_df),
                     keys   |-> keys]

----------------------------------------------------------------------------
(* app.py start-up *)

\* app.py line 25: all_data_df = load_all_data(); an exception ends the script
LoadAllData ==
    /\ pc = "start"
    /\ LET r == load_all_data(tracks_csv, spotify_csv)
       IN /\ raised' = r.raised
          /\ all_data_df' = r.value
          /\ merge_on' = r.keys
          /\ pc' = IF r.raised = "none" THEN "loaded" ELSE "crashed"
    /\ UNCHANGED <<tracks_csv, spotify_csv, call, result>>

\* app.py lines 28-30: st.error and st.stop() when nothing was loaded
CheckLoaded ==
    /\ pc = "loaded"
    /\ pc' = IF all_data_df = None \/ Empty(all_data_df) THEN "stopped" ELSE "ready"
    /\ UNCHANGED <<tracks_csv, spotify_csv, all_data_df, merge_on, raised, call, result>>

----------------------------------------------------------------------------
(* The input files of the loader specification *)

TracksKeyCols == {"id", "name", "artists"}
SpotifyKeyCols == {"track_id", "track_name", "artists"}

KeyDomain(c) ==
    IF c \in {"id", "track_id"} THEN {Cell("t1"), Cell("t2")}
    ELSE IF c \in {"name", "track_name"} THEN {Cell("S1"), Cell("S2")}
    ELSE {Cell("X"), Cell("Y")}

KeyFirst(c) ==
    IF c \in {"id", "track_id"} THEN Cell("t1")
    ELSE IF c \in {"name", "track_name"} THEN Cell("S1")
    ELSE Cell("X")

KeyRows(cs) ==
    {r \in [cs -> UNION {KeyDomain(c) : c \in cs}] : \A c \in cs : r[c] \in KeyDomain(c)}

\* The loader compares key cells only for equality, so the first row of tracks.csv
\* is fixed to the first value of each key column; every other table is one of
\* these with its key values renamed.
\* The cells the loader never inspects are distinct per row, so that a row of a
\* source can be told apart in the merged table.
TracksPayload(c, i) == Cell(2000 + i)
SpotifyPayload(c, j) == IF c = "year" THEN Cell(2010 + j) ELSE Cell(10 * j)

\* data/tracks.csv with the key columns ks, the other columns ps and the key cells keys
TracksFile(ks, ps, keys) ==
    [cols |-> ks \cup ps,
     rows |-> [i \in 1..Len(keys) |->
                [c \in ks \cup ps |-> IF c \in ks THEN keys[i][c] ELSE TracksPayload(c, i)]]]

\* data/spotify_tracks.csv likewise
SpotifyFile(ks, ps, keys) ==
    [cols |-> ks \cup ps,
     rows |-> [j \in 1..Len(keys) |->
                [c \in ks \cup ps |-> IF c \in ks THEN keys[j][c] ELSE SpotifyPayload(c, j)]]]

InitLoad ==
    /\ \/ tracks_csv = NoFile
       \/ \E ks \in SUBSET TracksKeyCols, ps \in SUBSET {"year"}, n \in 0..MaxTracksRows :
             \E keys \in [1..n -> KeyRows(ks)] :
                 /\ n >= 1 => keys[1] = [c \in ks |-> KeyFirst(c)]
                 /\ tracks_csv = TracksFile(ks, ps, keys)
    /\ \/ spotify_csv = NoFile
       \/ \E ks \in SUBSET SpotifyKeyCols, ps \in {{"popularity"}, {"popularity", "year"}},
             n \in 0..MaxSpotifyRows :
             \E keys \in [1..n -> KeyRows(ks)] :
                 spotify_csv = SpotifyFile(ks, ps, keys)
    /\ all_data_df = None
    /\ merge_on = NoKeys
    /\ pc = "start"
    /\ raised = "none"
    /\ call = NoCall
    /\ result = None

NextLoad == LoadAllData \/ CheckLoaded

SpecLoad == InitLoad /\ [][NextLoad]_vars

----------------------------------------------------------------------------
(* The chart queries: get_top_artists, get_most_popular_songs,               *)
(* get_most_popular_song_by_year, compare_artists                            *)

\* Python's order of the artist names of the model
StringOrder == <<"X", "Y">>
StrRank(s) == CHOOSE i \in 1..Len(StringOrder) : StringOrder[i] = s

\* order of two present cells of a group-by key column
KeyLess(col, a, b) ==
    IF col = "year" THEN Val(a) < Val(b) ELSE StrRank(Val(a)) < StrRank(Val(b))

RECURSIVE LexLess(_, _, _)
\* lexicographic order of two group keys over the key columns ks, in that order
LexLess(ks, a, b) ==
    IF ks = <<>> THEN FALSE
    ELSE IF a[ks[1]] = b[ks[1]] THEN LexLess(Tail(ks), a, b)
    ELSE KeyLess(ks[1], a[ks[1]], b[ks[1]])

RECURSIVE SortedKeys(_, _)
\* the group keys in ascending order (groupby sorts its groups)
SortedKeys(ks, S) ==
    IF S = {} THEN <<>>
    ELSE LET m == CHOOSE x \in S : \A y \in S \ {x} : LexLess(ks, x, y)
         IN <<m>> \o SortedKeys(ks, S \ {m})

RECURSIVE Gcd(_, _)
Gcd(a, b) == IF b = 0 THEN a ELSE Gcd(b, a % b)

RECURSIVE SumCells(_)
\* sum of the present cells of a sequence of cells
SumCells(cs) ==
    IF cs = <<>> THEN 0
    ELSE (IF IsNull(cs[1]) THEN 0 ELSE Val(cs[1])) + SumCells(Tail(cs))

RECURSIVE CountCells(_)
CountCells(cs) ==
    IF cs = <<>> THEN 0
    ELSE (IF IsNull(cs[1]) THEN 0 ELSE 1) + CountCells(Tail(cs))

\* Series.mean(): the mean of the present cells as an exact fraction in lowest
\* terms, missing when no cell is present
Mean(cs) ==
    IF CountCells(cs) = 0 THEN Null
    ELSE LET g == Gcd(SumCells(cs), CountCells(cs))
         IN Cell([sum |-> SumCells(cs) \div g, n |-> CountCells(cs) \div g])

\* order of two present cells
IntLess(a, b) == Val(a) < Val(b)
FracLess(a, b) == Val(a).sum * Val(b).n < Val(b).sum * Val(a).n

\* df.groupby(ks)[col].mean().reset_index(): rows with a missing key are dropped,
\* one row per group in ascending key order
GroupMean(df, ks, col) ==
    LET kset   == Range(ks)
        keyOf(r) == [k \in kset |-> r[k]]
        live   == {i \in 1..Len(df.rows) : \A k \in kset : ~IsNull(df.rows[i][k])}
        groups == SortedKeys(ks, {keyOf(df.rows[i]) : i \in live})
        member(g) == SelectIdx([i \in 1..Len(df.rows) |-> i \in live /\ keyOf(df.rows[i]) = g],
                               1, Len(df.rows))
        cells(g) == [k \in 1..Len(member(g)) |-> df.rows[member(g)[k]][col]]
    IN [cols |-> kset \cup {col},
        rows |-> [n \in 1..Len(groups) |->
                   [c \in kset \cup {col} |-> IF c = col THEN Mean(cells(groups[n]))
                                              ELSE groups[n][c]]]]

RECURSIVE SortIdx(_, _)
\* the indices of I ordered by before, the earlier index first among equals
SortIdx(I, before) ==
    IF I = {} THEN <<>>
    ELSE LET first == CHOOSE i \in I : \A j \in I \ {i} :
                          before[i][j] \/ (~before[j][i] /\ i < j)
         IN <<first>> \o SortIdx(I \ {first}, before)

\* the rows of df in the order of before
SortRows(df, before) ==
    LET idx == SortIdx(1..Len(df.rows), before)
    IN [cols |-> df.cols, rows |-> [k \in 1..Len(idx) |-> df.rows[idx[k]]]]

\* cell a sorts before cell b: descending, missing cells last
BeforeDescending(a, b) == ~IsNull(a) /\ (IsNull(b) \/ IntLess(b, a))
FracBeforeDescending(a, b) == ~IsNull(a) /\ (IsNull(b) \/ FracLess(b, a))
FracBeforeAscending(a, b) == ~IsNull(a) /\ (IsNull(b) \/ FracLess(a, b))

\* sort_values(col, ascending=False): larger values first, missing values last,
\* rows with equal values in their original order (pandas reverses, sorts and
\* reverses again; the sort of at most 16 values is an insertion sort)
SortDescending(df, col) ==
    SortRows(df, [i \in 1..Len(df.rows) |-> [j \in 1..Len(df.rows) |->
                     BeforeDescending(df.rows[i][col], df.rows[j][col])]])

\* the same on a column of means
SortMeansDescending(df, col) ==
    SortRows(df, [i \in 1..Len(df.rows) |-> [j \in 1..Len(df.rows) |->
                     FracBeforeDescending(df.rows[i][col], df.rows[j][col])]])

SortMeansAscending(df, col) ==
    SortRows(df, [i \in 1..Len(df.rows) |-> [j \in 1..Len(df.rows) |->
                     FracBeforeAscending(df.rows[i][col], df.rows[j][col])]])

\* df[df[col] == v]
WhereEq(df, col, v) ==
    Filter(df, [i \in 1..Len(df.rows) |-> df.rows[i][col] = Cell(v)])

\* df[df[col].isin(vs)]
WhereIn(df, col, vs) ==
    Filter(df, [i \in 1..Len(df.rows) |-> df.rows[i][col] \in {Cell(v) : v \in vs}])

HeadRowsOneMore(df, n) == [cols |-> df.cols, rows |-> HeadN(df.rows, n + 1)]

\* df.head(n)
HeadRows(df, n) == [cols |-> df.cols, rows |-> HeadN(df.rows, n)]

TopArtistsKeysMissingYearOnly(df) == "year" \notin df.cols

\* line 61
TopArtistsKeysMissing(df) == "year" \notin df.cols \/ "artist" \notin df.cols

\* lines 80 and 97
SongKeysMissing(df) ==
    "year" \notin df.cols \/ "title" \notin df.cols \/ "artist" \notin df.cols

\* line 110
CompareKeysMissing(df) == "artist" \notin df.cols \/ "year" \notin df.cols

\* lines 65, 84, 101, 114
PopularityMissing(df) == "popularity" \notin df.cols

RankAscending(df) == SortMeansAscending(df, "popularity")

\* lines 68-74, after the group-by: .sort_values(ascending=False)
RankArtists(df) == SortMeansDescending(df, "popularity")

\* get_top_artists(df, year, top_n); a group-by, a selection or a lookup of a
\* column the frame does not have raises KeyError
get_top_artists(df, year, top_n) ==
    IF TopArtistsKeysMissing(df) THEN Ok(EmptyDataFrame)
    ELSE LET year_df == WhereEq(df, "year", year)
         IN IF PopularityMissing(year_df) THEN Ok(EmptyDataFrame)
            ELSE IF "artist" \notin year_df.cols THEN Raise("KeyError")
            ELSE Ok(HeadRows(RankArtists(GroupMean(year_df, <<"artist">>, "popularity")),
                             top_n))

RankSongsUnsorted(df) == df

\* lines 88 and 104: year_df.sort_values("popularity", ascending=False)
RankSongs(df) == SortDescending(df, "popularity")

\* get_most_popular_songs(df, year, top_n)
get_most_popular_songs(df, year, top_n) ==
    IF SongKeysMissing(df) THEN Ok(EmptyDataFrame)
    ELSE LET year_df == WhereEq(df, "year", year)
         IN IF PopularityMissing(year_df) THEN Ok(EmptyDataFrame)
            ELSE IF ~({"title", "artist", "popularity"} \subseteq year_df.cols)
            THEN Raise("KeyError")
            ELSE Ok(Project(HeadRows(RankSongs(year_df), top_n),
                            {"title", "artist", "popularity"}))

\* get_most_popular_song_by_year(df, year): (title, popularity) or (None, None)
get_most_popular_song_by_year(df, year) ==
    IF SongKeysMissing(df) THEN Ok(<<NoneCell, NoneCell>>)
    ELSE LET year_df == WhereEq(df, "year", year)
         IN IF PopularityMissing(year_df) \/ Empty(year_df) THEN Ok(<<NoneCell, NoneCell>>)
            ELSE IF "title" \notin year_df.cols THEN Raise("KeyError")
            ELSE LET most_popular == RankSongs(year_df).rows[1]
                 IN Ok(<<most_popular["title"], most_popular["popularity"]>>)

ArtistFilterFirstOnly(df, artist1, artist2) == WhereIn(df, "artist", {artist1})

\* line 113: df[df["artist"].isin([artist1, artist2])]
ArtistFilter(df, artist1, artist2) == WhereIn(df, "artist", {artist1, artist2})

\* compare_artists(df, artist1, artist2)
compare_artists(df, artist1, artist2) ==
    IF CompareKeysMissing(df) THEN Ok(EmptyDataFrame)
    ELSE LET comp_df == ArtistFilter(df, artist1, artist2)
         IN IF PopularityMissing(comp_df) THEN Ok(EmptyDataFrame)
            ELSE IF "year" \notin comp_df.cols THEN Raise("KeyError")
            ELSE Ok(GroupMean(comp_df, <<"year", "artist">>, "popularity"))

----------------------------------------------------------------------------
(* get_songs_by_vibe.  Audio features are kept in hundredths (0.4 is 40);    *)
(* tempo is in beats per minute.  A frame cut from the table keeps the       *)
(* labels of its rows in the field index.                                    *)

\* df.get(col, default): the column, or the scalar default when it is absent
Get(df, col, default) ==
    IF col \in df.cols
    THEN [kind |-> "series", v |-> [i \in 1..Len(df.rows) |-> df.rows[i][col]]]
    ELSE [kind |-> "scalar", v |-> Cell(default)]

\* x < n and x > n, element-wise on a column (a missing cell compares false)
LessThan(x, n) ==
    IF x.kind = "series"
    THEN [kind |-> "series", v |-> [i \in DOMAIN x.v |-> ~IsNull(x.v[i]) /\ Val(x.v[i]) < n]]
    ELSE [kind |-> "scalar", v |-> Val(x.v) < n]

GreaterThan(x, n) ==
    IF x.kind = "series"
    THEN [kind |-> "series", v |-> [i \in DOMAIN x.v |-> ~IsNull(x.v[i]) /\ Val(x.v[i]) > n]]
    ELSE [kind |-> "scalar", v |-> Val(x.v) > n]

\* a & b: element-wise when either side is a column, a plain bool otherwise
And(a, b) ==
    IF a.kind = "series" /\ b.kind = "series"
    THEN [kind |-> "series", v |-> [i \in DOMAIN a.v |-> a.v[i] /\ b.v[i]]]
    ELSE IF a.kind = "series"
    THEN [kind |-> "series", v |-> [i \in DOMAIN a.v |-> a.v[i] /\ b.v]]
    ELSE IF b.kind = "series"
    THEN [kind |-> "series", v |-> [i \in DOMAIN b.v |-> a.v /\ b.v[i]]]
    ELSE [kind |-> "scalar", v |-> a.v /\ b.v]

\* df[mask]: the rows of a boolean column; a plain bool is looked up as a
\* column label and raises KeyError
Mask(df, mask) ==
    IF mask.kind = "scalar" THEN Raise("KeyError")
    ELSE LET idx == SelectIdx(mask.v, 1, Len(df.rows))
         IN Ok([cols  |-> df.cols,
                rows  |-> [k \in 1..Len(idx) |-> df.rows[idx[k]]],
                index |-> idx])

\* the vibe names of lines 125-133
RecognizedVibes == {"chill", "energetic", "gloomy", "party", "sporty"}

\* lines 125-137: the mask of a recognized vibe
VibeMask(df, vibe) ==
    IF vibe = "chill"
    THEN And(LessThan(Get(df, "energy", 100), 40),
             GreaterThan(Get(df, "acousticness", 0), 60))
    ELSE IF vibe = "energetic"
    THEN And(GreaterThan(Get(df, "energy", 0), 80),
             LessThan(Get(df, "acousticness", 100), 20))
    ELSE IF vibe = "gloomy"
    THEN And(LessThan(Get(df, "valence", 100), 30),
             LessThan(Get(df, "energy", 100), 40))
    ELSE IF vibe = "party"
    THEN And(GreaterThan(Get(df, "danceability", 0), 80),
             GreaterThan(Get(df, "energy", 0), 70))
    ELSE IF "tempo" \in df.cols
    THEN And(GreaterThan(Get(df, "tempo", 0), 120),
             GreaterThan(Get(df, "energy", 0), 80))
    ELSE GreaterThan(Get(df, "energy", 0), 80)

\* filtered.sample(n): n distinct rows of the frame, in any order
Sample(frame, n) ==
    { [cols  |-> frame.cols,
       rows  |-> [k \in 1..n |-> frame.rows[pick[k]]],
       index |-> [k \in 1..n |-> frame.index[pick[k]]]]
      : pick \in {p \in [1..n -> 1..Len(frame.rows)] :
                     \A a, b \in 1..n : a # b => p[a] # p[b]} }

Min(a, b) == IF a < b THEN a ELSE b

\* get_songs_by_vibe(df, vibe, num_songs): the set of its possible outcomes
get_songs_by_vibe(df, vibe, num_songs) ==
    IF Empty(df) THEN {Ok(EmptyDataFrame)}
    ELSE IF vibe \notin RecognizedVibes THEN {Ok(EmptyDataFrame)}
    ELSE LET filtered == Mask(df, VibeMask(df, vibe))
         IN IF filtered.raised # "none" THEN {filtered}
            ELSE IF Empty(filtered.value) THEN {Ok(EmptyDataFrame)}
            ELSE {Ok(f) : f \in Sample(filtered.value,
                                       Min(num_songs, Len(filtered.value.rows)))}

----------------------------------------------------------------------------------------------------------------------------------------
(* The objects of a call.  A heap is the sequence of the objects that exist, *)
(* an address a position in it; an object is its type and its value.  pandas *)
(* builds a new object wherever it is not told otherwise (inplace=False,     *)
(* boolean indexing, a column list, head, reset_index, sample,               *)
(* pd.DataFrame()); an assignment into a frame or inplace=True would change  *)
(* the object at its address.                                                *)

DataFrame(v) == [type |-> "DataFrame", v |-> v]
Series(v) == [type |-> "Series", v |-> v]
Tuple(v) == [type |-> "tuple", v |-> v]

\* the value of the object at address a
At(heap, a) == heap[a].v

\* a new object obj, at the address Top of the heap it gives
Alloc(heap, obj) == Append(heap, obj)
Top(heap) == Len(heap)

\* obj[...] = v or a method with inplace=True: the object at address a gets the
\* value v
Store(heap, a, v) == [heap EXCEPT ![a].v = v]

\* how a body ends: `return` of the object at address a, or an exception
Return(heap, a) == [heap |-> heap, ret |-> a, raised |-> "none"]
Raised(heap, e) == [heap |-> heap, ret |-> 0, raised |-> e]

\* `return pd.DataFrame()`
ReturnEmpty(heap) == Return(Alloc(heap, DataFrame(EmptyDataFrame)), Top(heap) + 1)

\* `return None, None`: the pair is one constant of the function's code, the same
\* object at every return; it joins the heap the first time it is returned
ReturnNonePair(heap) ==
    LET NonePair == Tuple(<<NoneCell, NoneCell>>)
        IsNonePair(a) == heap[a].type = "tuple" /\ heap[a] = NonePair
    IN IF \E a \in 1..Len(heap) : IsNonePair(a)
       THEN Return(heap, CHOOSE a \in 1..Len(heap) : IsNonePair(a))
       ELSE Return(Alloc(heap, NonePair), Top(heap) + 1)

\* what the caller gets from a body that ended as m
Outcome(m) == IF m.raised # "none" THEN Raise(m.raised) ELSE Ok(At(m.heap, m.ret))

\* lines 59-75, statement by statement; df is the address of the argument
RunGetTopArtists(heap, df, year, top_n) ==
    IF TopArtistsKeysMissing(At(heap, df)) THEN ReturnEmpty(heap)
    ELSE LET h1 == Alloc(heap, DataFrame(WhereEq(At(heap, df), "year", year)))
             year_df == Top(h1)
         IN IF PopularityMissing(At(h1, year_df)) THEN ReturnEmpty(h1)
            ELSE LET grouped == Alloc(h1, Series(GroupMean(At(h1, year_df), <<"artist">>,
                                                           "popularity")))
                     sorted  == Alloc(grouped,
                                      Series(RankArtists(At(grouped, Top(grouped)))))
                     head    == Alloc(sorted,
                                      Series(HeadRows(At(sorted, Top(sorted)), top_n)))
                     h2      == Alloc(head, DataFrame(At(head, Top(head))))
                     top_artists == Top(h2)
                 IN Return(h2, top_artists)

\* the body as though line 88 were df.sort_values(..., inplace=True) on the
\* argument, ahead of the year filter
RunGetMostPopularSongsSortingTable(heap, df, year, top_n) ==
    IF SongKeysMissing(At(heap, df)) THEN ReturnEmpty(heap)
    ELSE IF PopularityMissing(At(heap, df)) THEN ReturnEmpty(heap)
    ELSE LET h0 == Store(heap, df, RankSongs(At(heap, df)))
             h1 == Alloc(h0, DataFrame(WhereEq(At(h0, df), "year", year)))
             year_df == Top(h1)
             head == Alloc(h1, DataFrame(HeadRows(At(h1, year_df), top_n)))
             cut  == Alloc(head, DataFrame(Project(At(head, Top(head)),
                                                   {"title", "artist", "popularity"})))
             h2   == Alloc(cut, DataFrame(At(cut, Top(cut))))
         IN Return(h2, Top(h2))

\* lines 78-92
RunGetMostPopularSongs(heap, df, year, top_n) ==
    IF SongKeysMissing(At(heap, df)) THEN ReturnEmpty(heap)
    ELSE LET h1 == Alloc(heap, DataFrame(WhereEq(At(heap, df), "year", year)))
             year_df == Top(h1)
         IN IF PopularityMissing(At(h1, year_df)) THEN ReturnEmpty(h1)
            ELSE LET sorted == Alloc(h1, DataFrame(RankSongs(At(h1, year_df))))
                     head   == Alloc(sorted,
                                     DataFrame(HeadRows(At(sorted, Top(sorted)), top_n)))
                     cut    == Alloc(head,
                                     DataFrame(Project(At(head, Top(head)),
                                                       {"title", "artist", "popularity"})))
                     h2     == Alloc(cut, DataFrame(At(cut, Top(cut))))
                     top_songs == Top(h2)
                 IN Return(h2, top_songs)

\* lines 95-105; the pair of line 105 is a new tuple
RunGetMostPopularSongByYear(heap, df, year) ==
    IF SongKeysMissing(At(heap, df)) THEN ReturnNonePair(heap)
    ELSE LET h1 == Alloc(heap, DataFrame(WhereEq(At(heap, df), "year", year)))
             year_df == Top(h1)
         IN IF PopularityMissing(At(h1, year_df)) \/ Empty(At(h1, year_df))
            THEN ReturnNonePair(h1)
            ELSE LET sorted == Alloc(h1, DataFrame(RankSongs(At(h1, year_df))))
                     h2     == Alloc(sorted, Series(At(sorted, Top(sorted)).rows[1]))
                     most_popular == Top(h2)
                     h3     == Alloc(h2, Tuple(<<At(h2, most_popular)["title"],
                                                 At(h2, most_popular)["popularity"]>>))
                 IN Return(h3, Top(h3))

\* lines 108-117
RunCompareArtists(heap, df, artist1, artist2) ==
    IF CompareKeysMissing(At(heap, df)) THEN ReturnEmpty(heap)
    ELSE LET h1 == Alloc(heap, DataFrame(ArtistFilter(At(heap, df), artist1, artist2)))
             comp_df == Top(h1)
         IN IF PopularityMissing(At(h1, comp_df)) THEN ReturnEmpty(h1)
            ELSE LET grouped == Alloc(h1, Series(GroupMean(At(h1, comp_df),
                                                           <<"year", "artist">>,
                                                           "popularity")))
                     h2      == Alloc(grouped, DataFrame(At(grouped, Top(grouped))))
                 IN Return(h2, Top(h2))

\* lines 120-144: every way the body can end (sample draws the rows)
RunGetSongsByVibe(heap, df, vibe, num_songs) ==
    IF Empty(At(heap, df)) THEN {ReturnEmpty(heap)}
    ELSE IF vibe \notin RecognizedVibes THEN {ReturnEmpty(heap)}
    ELSE LET cut == Mask(At(heap, df), VibeMask(At(heap, df), vibe))
         IN IF cut.raised # "none" THEN {Raised(heap, cut.raised)}
            ELSE LET h1 == Alloc(heap, DataFrame(cut.value))
                     filtered == Top(h1)
                 IN IF Empty(At(h1, filtered)) THEN {ReturnEmpty(h1)}
                    ELSE {Return(Alloc(h1, DataFrame(s)), Top(h1) + 1) :
                            s \in Sample(At(h1, filtered),
                                         Min(num_songs, Len(At(h1, filtered).rows)))}

\* the ways the call c can end on the argument at address df
Runs(heap, df, c) ==
    IF c.fn = "get_top_artists" THEN {RunGetTopArtists(heap, df, c.year, c.top_n)}
    ELSE IF c.fn = "get_most_popular_songs"
    THEN {RunGetMostPopularSongs(heap, df, c.year, c.top_n)}
    ELSE IF c.fn = "get_most_popular_song_by_year"
    THEN {RunGetMostPopularSongByYear(heap, df, c.year)}
    ELSE IF c.fn = "compare_artists"
    THEN {RunCompareArtists(heap, df, c.artist1, c.artist2)}
    ELSE RunGetSongsByVibe(heap, df, c.vibe, c.num_songs)

\* the objects app.py holds when it makes a call: the merged table, at address 1,
\* and what the call before (last) returned
Held(table, last, earlier) ==
    IF earlier = None \/ earlier.raised # "none" THEN <<DataFrame(table)>>
    ELSE IF last.fn = "get_most_popular_song_by_year"
    THEN <<DataFrame(table), Tuple(earlier.value)>>
    ELSE <<DataFrame(table), DataFrame(earlier.value)>>

----------------
(* The query calls of app.py, each on all_data_df *)

\* the arguments the model draws
\* every year of a table of the model (app.py lines 39-46 and 95-103 offer the
\* years of the table) and 2000, which a loaded table never holds
Years ==
    {2000} \cup {2000 + i : i \in 1..MaxTracksRows}
           \cup {2010 + j : j \in 1..MaxSpotifyRows}
ArtistNames == {"X", "Y"}
Counts == 0..MaxTopN

\* the call c of a query returns (or raises) r; all_data_df is the object at
\* address 1 as the body left it
Returns(c, r) ==
    /\ pc' = "answered"
    /\ call' = c
    /\ result' = r
    /\ all_data_df' \in {At(m.heap, 1) : m \in Runs(Held(all_data_df, call, result), 1, c)}
    /\ UNCHANGED <<tracks_csv, spotify_csv, merge_on, raised>>

\* app.py line 48
GetTopArtists ==
    /\ pc = "ready"
    /\ \E year \in Years, top_n \in Counts :
           Returns([fn |-> "get_top_artists", year |-> year, top_n |-> top_n],
                   get_top_artists(all_data_df, year, top_n))

\* app.py line 57
GetMostPopularSongs ==
    /\ pc = "ready"
    /\ \E year \in Years, top_n \in Counts :
           Returns([fn |-> "get_most_popular_songs", year |-> year, top_n |-> top_n],
                   get_most_popular_songs(all_data_df, year, top_n))

\* app.py line 104
GetMostPopularSongByYear ==
    /\ pc = "ready"
    /\ \E year \in Years :
           Returns([fn |-> "get_most_popular_song_by_year", year |-> year],
                   get_most_popular_song_by_year(all_data_df, year))

\* app.py line 123
CompareArtists ==
    /\ pc = "ready"
    /\ \E artist1 \in ArtistNames, artist2 \in ArtistNames :
           Returns([fn |-> "compare_artists", artist1 |-> artist1, artist2 |-> artist2],
                   compare_artists(all_data_df, artist1, artist2))

----------------------------------------------------------------------------
(* The tables of the chart-query specifications *)

ChartCols == {"year", "artist", "title", "popularity"}

ChartYears == {Null, Cell(2000), Cell(2001)}
ChartArtists == {Null, Cell("X"), Cell("Y")}
ChartPopularities == {Null, Cell(1), Cell(2)}

\* The queries never inspect a title: row i carries its own title, so that a
\* returned row can be told apart.
TitleOf(i) == Cell(<<"S", i>>)

ChartRows(cs) ==
    {[c \in cs |-> full[c]] :
        full \in {[year |-> y, artist |-> a, popularity |-> p] :
                     y \in ChartYears, a \in ChartArtists, p \in ChartPopularities}}

\* the table over the columns cs whose rows carry the cells of body
ChartTable(cs, body) ==
    [cols |-> cs,
     rows |-> [i \in 1..Len(body) |->
                [c \in cs |-> IF c = "title" THEN TitleOf(i) ELSE body[i][c]]]]

\* every table of at most MaxRows rows over every subset of the chart columns
InitQuery ==
    /\ tracks_csv = NoFile
    /\ spotify_csv = NoFile
    /\ \E cs \in SUBSET ChartCols, n \in 0..MaxRows :
          \E body \in [1..n -> ChartRows(cs \ {"title"})] :
              all_data_df = ChartTable(cs, body)
    /\ merge_on = NoKeys
    /\ pc = "ready"
    /\ raised = "none"
    /\ call = NoCall
    /\ result = None

NextQuery ==
    \/ GetTopArtists
    \/ GetMostPopularSongs
    \/ GetMostPopularSongByYear
    \/ CompareArtists

SpecQuery == InitQuery /\ [][NextQuery]_vars

----------------------------------------------------------------------------
(* The vibe call of app.py *)

\* the vibe names the model draws: the five of app.py line 75 and one other
VibeNames == {"chill", "energetic", "gloomy", "party", "sporty", "jazzy"}

\* app.py line 79
GetSongsByVibe ==
    /\ pc = "ready"
    /\ \E vibe \in VibeNames, num_songs \in Counts :
           \E r \in get_songs_by_vibe(all_data_df, vibe, num_songs) :
               Returns([fn |-> "get_songs_by_vibe", vibe |-> vibe, num_songs |-> num_songs], r)

----------------------------------------------------------------------------
(* The tables of the vibe specification *)

FeatureCols == {"energy", "acousticness", "valence", "danceability", "tempo"}

\* energy below, at and above the thresholds 0.4, 0.7 and 0.8
EnergyLevels == {Null, Cell(30), Cell(40), Cell(70), Cell(80), Cell(90)}

\* Each vibe reads energy and one other column, so a row pairs an energy level
\* with one profile of the other four: every pair of cells a vibe can read occurs.
Profiles ==
    { [acousticness |-> Null,     valence |-> Null,     danceability |-> Null,
       tempo |-> Null],
      [acousticness |-> Cell(10), valence |-> Cell(20), danceability |-> Cell(80),
       tempo |-> Cell(120)],
      [acousticness |-> Cell(20), valence |-> Cell(30), danceability |-> Cell(90),
       tempo |-> Cell(140)],
      [acousticness |-> Cell(60), valence |-> Cell(20), danceability |-> Cell(90),
       tempo |-> Cell(140)],
      [acousticness |-> Cell(70), valence |-> Cell(30), danceability |-> Cell(80),
       tempo |-> Cell(120)] }

VibeRows == {[c \in FeatureCols |-> IF c = "energy" THEN e ELSE p[c]] :
                e \in EnergyLevels, p \in Profiles}

VibeTable(cs, body) ==
    [cols |-> cs \cup {"title"},
     rows |-> [i \in 1..Len(body) |->
                [c \in cs \cup {"title"} |-> IF c = "title" THEN TitleOf(i) ELSE body[i][c]]]]

\* every table of at most MaxVibeRows rows over every subset of the feature columns
InitVibe ==
    /\ tracks_csv = NoFile
    /\ spotify_csv = NoFile
    /\ \E cs \in SUBSET FeatureCols, n \in 0..MaxVibeRows :
          \E body \in [1..n -> VibeRows] :
              all_data_df = VibeTable(cs, body)
    /\ merge_on = NoKeys
    /\ pc = "ready"
    /\ raised = "none"
    /\ call = NoCall
    /\ result = None

NextVibe == GetSongsByVibe

SpecVibe == InitVibe /\ [][NextVibe]_vars

----------------------------------------------------------------------------
(* The whole script: the load, then the query calls of the chosen section *)

\* app.py lines 48-57 and 104-123: the script goes on to its next call
NextCall ==
    /\ pc = "answered"
    /\ pc' = "ready"
    /\ UNCHANGED <<tracks_csv, spotify_csv, all_data_df, merge_on, raised, call, result>>

Init == InitLoad

Next ==
    \/ LoadAllData
    \/ CheckLoaded
    \/ GetTopArtists
    \/ GetMostPopularSongs
    \/ GetMostPopularSongByYear
    \/ CompareArtists
    \/ GetSongsByVibe
    \/ NextCall

Spec == Init /\ [][Next]_vars

----------------------------------------------------------------------------
(* A session on a merged table: the five queries, called in any order with   *)
(* any arguments, each on all_data_df                                        *)

\* rows of a table of the session specification
MaxSessionRows == 2

\* the column sets of the session tables: every column the queries read; no
\* audio features; no popularity
SessionColumnSets ==
    { ChartCols \cup {"energy", "acousticness"},
      ChartCols,
      (ChartCols \ {"popularity"}) \cup {"energy", "acousticness"} }

\* A row of a session table.  No query reads both a chart column and an audio
\* feature, so the features are tied to the artist: X is chill, Y energetic.
SessionRows ==
    { [year |-> Cell(y), artist |-> Cell(a), popularity |-> Cell(p),
       energy |-> IF a = "X" THEN Cell(30) ELSE Cell(90),
       acousticness |-> IF a = "X" THEN Cell(70) ELSE Cell(10)] :
        y \in {2000, 2001}, a \in ArtistNames, p \in {1, 2} }

SessionTable(cs, body) ==
    [cols |-> cs,
     rows |-> [i \in 1..Len(body) |->
                [c \in cs |-> IF c = "title" THEN TitleOf(i) ELSE body[i][c]]]]

\* app.py line 25 has returned a non-empty table and line 28 let it pass
InitSession ==
    /\ tracks_csv = NoFile
    /\ spotify_csv = NoFile
    /\ \E cs \in SessionColumnSets, n \in 1..MaxSessionRows :
          \E body \in [1..n -> SessionRows] :
              all_data_df = SessionTable(cs, body)
    /\ merge_on = NoKeys
    /\ pc = "ready"
    /\ raised = "none"
    /\ call = NoCall
    /\ result = None

NextSession ==
    \/ GetTopArtists
    \/ GetMostPopularSongs
    \/ GetMostPopularSongByYear
    \/ CompareArtists
    \/ GetSongsByVibe
    \/ NextCall

SpecSession == InitSession /\ [][NextSession]_vars

----------------------------------------------------------------------------
(* Claims about load_all_data (checked under SpecLoad) *)

\* both files were read into a table: present, each with a header
BothFilesRead ==
    read_csv(tracks_csv).raised = "none" /\ read_csv(spotify_csv).raised = "none"
LoadReturned == pc \in {"loaded", "ready", "stopped"}
LoadFinished == pc # "start"

\* the sources as load_all_data merges them
PrimarySource == NormalizeTracks(tracks_csv)
SecondarySource(primary) == NormalizeSpotify(primary, spotify_csv)

\* the secondary rows that agree with the primary row prow on the join keys
MatchesOf(prow, secondary) ==
    {j \in 1..Len(secondary.rows) :
        \A p \in KeyPairs(merge_on.left, merge_on.right) :
            prow[p[1]] = secondary.rows[j][p[2]]}

RECURSIVE LeftJoinSize(_, _)
\* rows of a left join: one per match, one for a primary row without a match
LeftJoinSize(prows, secondary) ==
    IF prows = <<>> THEN 0
    ELSE LET m == Cardinality(MatchesOf(prows[1], secondary))
         IN (IF m = 0 THEN 1 ELSE m) + LeftJoinSize(Tail(prows), secondary)

JoinedOn(left, right, primary, secondary) ==
    /\ raised = "none"
    /\ all_data_df # None
    /\ merge_on = [left |-> left, right |-> right]
    /\ Len(all_data_df.rows) = LeftJoinSize(primary.rows, secondary)

FailedMissingJoinKey == raised = "KeyError" /\ all_data_df = None /\ pc = "crashed"

\* C3 as stated: with both sources read, identifier join when id and track_id exist; otherwise the join on
\* (title, artist) when both columns exist in both sources; otherwise load_all_data
\* fails with the missing-join-key error and returns no table.
C3_JoinPriorityAsStated ==
    (LoadFinished /\ BothFilesRead) =>
        LET primary   == PrimarySource
            secondary == SecondarySource(primary)
        IN IF "id" \in primary.cols /\ "track_id" \in secondary.cols
           THEN JoinedOn({"id"}, {"track_id"}, primary, secondary)
           ELSE IF {"title", "artist"} \subseteq (primary.cols \cap secondary.cols)
           THEN JoinedOn({"title", "artist"}, {"title", "artist"}, primary, secondary)
           ELSE FailedMissingJoinKey

\* C3 amended: with both sources read, identifier join when id and track_id exist; otherwise a left join on
\* those of title and artist that exist in both sources, when there is at least one
\* (both, or title alone, or artist alone); otherwise load_all_data fails with the
\* missing-join-key error and returns no table.
C3_JoinPriority ==
    (LoadFinished /\ BothFilesRead) =>
        LET primary   == PrimarySource
            secondary == SecondarySource(primary)
            common    == {"title", "artist"} \cap primary.cols \cap secondary.cols
        IN IF "id" \in primary.cols /\ "track_id" \in secondary.cols
           THEN JoinedOn({"id"}, {"track_id"}, primary, secondary)
           ELSE IF common # {}
           THEN JoinedOn(common, common, primary, secondary)
           ELSE FailedMissingJoinKey

\* a load that joined on the title alone, with a primary row matched twice
C3_Witness ==
    /\ pc = "loaded"
    /\ merge_on.left = {"title"}
    /\ "artist" \in all_data_df.cols
    /\ Len(all_data_df.rows) > Len(tracks_csv.rows)

\* C4: with an input file missing or unreadable (no header to parse),
\* load_all_data returns a result the caller can test (no table, or an empty one)
\* instead of raising, and app.py stops without calling a query function.
C4_DataUnavailable ==
    (LoadFinished /\ ~BothFilesRead) =>
        /\ raised = "none"
        /\ pc \in {"loaded", "stopped"}
        /\ (all_data_df = None \/ Empty(all_data_df))
        /\ call = NoCall

\* C5: every primary row is in the merged table at least once with its primary
\* columns unchanged, and a primary row without a match has every column that
\* comes from the secondary source missing.
C5_PrimaryRowsSurvive ==
    LoadReturned =>
        LET primary   == PrimarySource
            secondary == SecondarySource(primary)
            merged    == all_data_df
            same(k, i) == \A c \in primary.cols : merged.rows[k][c] = primary.rows[i][c]
        IN /\ primary.cols \subseteq merged.cols
           /\ \A i \in 1..Len(primary.rows) :
                 /\ \E k \in 1..Len(merged.rows) : same(k, i)
                 /\ MatchesOf(primary.rows[i], secondary) = {} =>
                       \A k \in 1..Len(merged.rows) :
                           same(k, i) => \A c \in merged.cols \ primary.cols :
                                             merged.rows[k][c] = Null

\* a merged table whose primary row has no match, with a suffixed column
C5_Witness ==
    /\ LoadReturned
    /\ Len(tracks_csv.rows) >= 1
    /\ Len(spotify_csv.rows) >= 1
    /\ Len(all_data_df.rows) = Len(tracks_csv.rows)
    /\ {"year", "year_spotify", "popularity", "title"} \subseteq all_data_df.cols
    /\ all_data_df.rows[Len(all_data_df.rows)]["popularity"] = Null
    /\ all_data_df.rows[Len(all_data_df.rows)]["year"] # Null

----------------------------------------------------------------------------
(* Claims about get_songs_by_vibe (checked under SpecVibe) *)

Called(fn) == pc = "answered" /\ call.fn = fn

\* the cell of a row in a column, missing when the table has no such column
CellOf(df, i, col) == IF col \in df.cols THEN df.rows[i][col] ELSE Null

Below(c, n) == ~IsNull(c) /\ Val(c) < n
Above(c, n) == ~IsNull(c) /\ Val(c) > n

\* the threshold predicate of a vibe on row i; an absent feature does not qualify
Qualifies(df, i, vibe) ==
    IF vibe = "chill"
    THEN Below(CellOf(df, i, "energy"), 40) /\ Above(CellOf(df, i, "acousticness"), 60)
    ELSE IF vibe = "energetic"
    THEN Above(CellOf(df, i, "energy"), 80) /\ Below(CellOf(df, i, "acousticness"), 20)
    ELSE IF vibe = "gloomy"
    THEN Below(CellOf(df, i, "valence"), 30) /\ Below(CellOf(df, i, "energy"), 40)
    ELSE IF vibe = "party"
    THEN Above(CellOf(df, i, "danceability"), 80) /\ Above(CellOf(df, i, "energy"), 70)
    ELSE /\ Above(CellOf(df, i, "energy"), 80)
         /\ "tempo" \in df.cols => Above(CellOf(df, i, "tempo"), 120)

\* the returned rows are a selection of min(num_songs, matches) distinct matching rows
IsVibeSelection(df, vibe, num_songs, out) ==
    LET matching == {i \in 1..Len(df.rows) : Qualifies(df, i, vibe)}
        labels   == IF Empty(out) THEN <<>> ELSE out.index
    IN /\ Len(out.rows) <= num_songs
       /\ Len(out.rows) = Len(labels)
       /\ \A k \in 1..Len(labels) :
             labels[k] \in matching /\ out.rows[k] = df.rows[labels[k]]
       /\ \A k, l \in 1..Len(labels) : k # l => labels[k] # labels[l]
       /\ Cardinality(matching) <= num_songs => Len(labels) = Cardinality(matching)

\* C1: for every table, recognised vibe and num_songs >= 0, get_songs_by_vibe
\* returns at most num_songs rows, each a row of the table that satisfies the
\* vibe's predicate, none twice, and all matching rows when fewer match than
\* num_songs; for any other vibe name the result is empty.
C1_VibeSelection ==
    Called("get_songs_by_vibe") =>
        /\ result.raised = "none"
        /\ IF call.vibe \in RecognizedVibes
           THEN IsVibeSelection(all_data_df, call.vibe, call.num_songs, result.value)
           ELSE Empty(result.value)

\* the feature columns whose absence C2 speaks of
AbsentFeature(df, vibe) ==
    IF vibe = "chill" \/ vibe = "energetic" THEN {"energy", "acousticness"} \ df.cols # {}
    ELSE IF vibe = "gloomy" THEN {"valence", "energy"} \ df.cols # {}
    ELSE IF vibe = "party" THEN {"danceability", "energy"} \ df.cols # {}
    ELSE vibe = "sporty" /\ "energy" \notin df.cols

\* C2: on a non-empty table that lacks a feature column of the vibe (one or both
\* for chill, energetic, gloomy and party; energy for sporty, with or without
\* tempo), get_songs_by_vibe returns an empty result and does not raise.
C2_AbsentFeatureIsEmpty ==
    (/\ Called("get_songs_by_vibe")
     /\ ~Empty(all_data_df)
     /\ AbsentFeature(all_data_df, call.vibe))
    => (result.raised = "none" /\ Empty(result.value))

\* What the code does guarantee: a call that returns returns a selection as C1
\* describes, and the call raises only when the mask of the vibe has no column
\* left in it.
VibeSelectionWhenReturned ==
    (Called("get_songs_by_vibe") /\ result.raised = "none") =>
        IF call.vibe \in RecognizedVibes
        THEN IsVibeSelection(all_data_df, call.vibe, call.num_songs, result.value)
        ELSE Empty(result.value)

VibeRaisesOnlyWithoutColumns ==
    Called("get_songs_by_vibe") =>
        (result.raised # "none" <=>
            /\ result.raised = "KeyError"
            /\ ~Empty(all_data_df)
            /\ "energy" \notin all_data_df.cols
            /\ \/ call.vibe \in {"chill", "energetic"} /\ "acousticness" \notin all_data_df.cols
               \/ call.vibe = "gloomy" /\ "valence" \notin all_data_df.cols
               \/ call.vibe = "party" /\ "danceability" \notin all_data_df.cols
               \/ call.vibe = "sporty" /\ "tempo" \notin all_data_df.cols)

----------------------------------------------------------------------------
(* Claims about the chart queries (checked under SpecQuery).  A missing      *)
(* popularity ranks below every number, as pandas sorts it last; a mean is   *)
(* taken over the popularities that are present.                             *)

HasCols(cs) == cs \subseteq all_data_df.cols

\* the rows of the table of a year
RowsOfYear(year) ==
    {i \in 1..Len(all_data_df.rows) : all_data_df.rows[i]["year"] = Cell(year)}

RECURSIVE PopularitySum(_)
\* the sum of the popularities present in the rows I of the table
PopularitySum(I) ==
    IF I = {} THEN 0
    ELSE LET i == CHOOSE x \in I : TRUE
         IN (IF IsNull(all_data_df.rows[i]["popularity"]) THEN 0
             ELSE Val(all_data_df.rows[i]["popularity"])) + PopularitySum(I \ {i})

Rated(I) == {i \in I : ~IsNull(all_data_df.rows[i]["popularity"])}

\* the cell c holds the mean popularity of the rows I
IsMeanOf(c, I) ==
    IF Rated(I) = {} THEN IsNull(c)
    ELSE /\ ~IsNull(c)
         /\ Val(c).n > 0
         /\ Val(c).sum * Cardinality(Rated(I)) = PopularitySum(I) * Val(c).n

\* the mean popularity of the rows I is at most the mean held by the cell c
MeanAtMost(I, c) ==
    Rated(I) = {} \/
    (~IsNull(c) /\ PopularitySum(I) * Val(c).n <= Val(c).sum * Cardinality(Rated(I)))

\* mean a is at least mean b
MeanAtLeast(a, b) ==
    IsNull(b) \/ (~IsNull(a) /\ Val(a).sum * Val(b).n >= Val(b).sum * Val(a).n)

\* popularity a is at least popularity b
AtLeast(a, b) == IsNull(b) \/ (~IsNull(a) /\ Val(a) >= Val(b))

\* C6: on a table with year, artist and popularity, get_top_artists returns at
\* most top_n rows, one per distinct artist with a row in that year, each with
\* the mean popularity of that artist's rows of the year, in descending order of
\* the mean (no artist left out has a higher mean than one returned); with no
\* row of that year the result is empty, and nothing is raised.
C6_TopArtists ==
    (Called("get_top_artists") /\ HasCols({"year", "artist", "popularity"})) =>
        LET out     == result.value
            inYear  == RowsOfYear(call.year)
            artists == {all_data_df.rows[i]["artist"] : i \in inYear} \ {Null}
            rowsOf(a) == {i \in inYear : all_data_df.rows[i]["artist"] = a}
            shown   == {out.rows[k]["artist"] : k \in 1..Len(out.rows)}
        IN /\ result.raised = "none"
           /\ Len(out.rows) <= call.top_n
           /\ Len(out.rows) = Min(call.top_n, Cardinality(artists))
           /\ shown \subseteq artists
           /\ Cardinality(shown) = Len(out.rows)
           /\ \A k \in 1..Len(out.rows) :
                 IsMeanOf(out.rows[k]["popularity"], rowsOf(out.rows[k]["artist"]))
           /\ \A k, l \in 1..Len(out.rows) :
                 k < l => MeanAtLeast(out.rows[k]["popularity"], out.rows[l]["popularity"])
           /\ \A a \in artists \ shown : \A k \in 1..Len(out.rows) :
                 MeanAtMost(rowsOf(a), out.rows[k]["popularity"])
           /\ inYear = {} => Empty(out)

\* two artists of one year returned against the order of their names
C6_Witness ==
    /\ Called("get_top_artists")
    /\ HasCols({"year", "artist", "popularity"})
    /\ Len(result.value.rows) = 2
    /\ result.value.rows[1]["artist"] = Cell("Y")
    /\ result.value.rows[1]["popularity"] # result.value.rows[2]["popularity"]

\* C7: on a table with year, title, artist and popularity,
\* get_most_popular_song_by_year returns (None, None) exactly when no row has the
\* year, and otherwise the title and popularity of a row of the year whose
\* popularity is at least that of every row of the year; with a required column
\* absent it returns (None, None).
C7_MostPopularSongByYear ==
    Called("get_most_popular_song_by_year") =>
        /\ result.raised = "none"
        /\ IF HasCols({"year", "title", "artist", "popularity"})
           THEN LET inYear == RowsOfYear(call.year)
                IN /\ result.value = <<NoneCell, NoneCell>> <=> inYear = {}
                   /\ inYear # {} =>
                         \E i \in inYear :
                            /\ result.value = <<all_data_df.rows[i]["title"],
                                                all_data_df.rows[i]["popularity"]>>
                            /\ \A j \in inYear :
                                  AtLeast(all_data_df.rows[i]["popularity"],
                                          all_data_df.rows[j]["popularity"])
           ELSE result.value = <<NoneCell, NoneCell>>

\* the second of two rows of the year is the more popular and is returned
C7_Witness ==
    /\ Called("get_most_popular_song_by_year")
    /\ HasCols({"year", "title", "artist", "popularity"})
    /\ Cardinality(RowsOfYear(call.year)) = 2
    /\ result.value = <<TitleOf(2), Cell(2)>>

\* C8: on a table with artist, year and popularity, compare_artists returns
\* exactly one row per (year, artist) pair of the table whose artist is one of the
\* two names, with the mean popularity of the rows of the pair; no row for another
\* artist or for a year in which neither has data; empty when neither is present.
C8_CompareArtists ==
    (Called("compare_artists") /\ HasCols({"artist", "year", "popularity"})) =>
        LET out   == result.value
            names == {Cell(call.artist1), Cell(call.artist2)}
            both  == {i \in 1..Len(all_data_df.rows) :
                         /\ all_data_df.rows[i]["artist"] \in names
                         /\ ~IsNull(all_data_df.rows[i]["year"])}
            pairOf(r) == <<r["year"], r["artist"]>>
            pairs == {pairOf(all_data_df.rows[i]) : i \in both}
            rowsOf(p) == {i \in both : pairOf(all_data_df.rows[i]) = p}
        IN /\ result.raised = "none"
           /\ Len(out.rows) = Cardinality(pairs)
           /\ {pairOf(out.rows[k]) : k \in 1..Len(out.rows)} = pairs
           /\ \A k \in 1..Len(out.rows) :
                 /\ out.rows[k]["artist"] \in names
                 /\ IsMeanOf(out.rows[k]["popularity"], rowsOf(pairOf(out.rows[k])))
           /\ (\A i \in 1..Len(all_data_df.rows) :
                  all_data_df.rows[i]["artist"] \notin names) => Empty(out)

\* two rows of one artist and year compared into one row with their mean, 3/2
C8_Witness ==
    /\ Called("compare_artists")
    /\ HasCols({"artist", "year", "popularity"})
    /\ Len(all_data_df.rows) = 2
    /\ Len(result.value.rows) = 1
    /\ result.value.rows[1]["popularity"] = Cell([sum |-> 3, n |-> 2])

\* C9: on a table with year, title, artist and popularity, get_most_popular_songs
\* returns at most top_n rows, each a row of the year cut to title, artist and
\* popularity, in descending order of popularity, so that the first is at least
\* as popular as every other returned row and as every row of the year left out.
C9_MostPopularSongs ==
    (Called("get_most_popular_songs") /\ HasCols({"year", "title", "artist", "popularity"})) =>
        LET out    == result.value
            inYear == RowsOfYear(call.year)
            cut(r) == [c \in {"title", "artist", "popularity"} |-> r[c]]
            titles == {out.rows[k]["title"] : k \in 1..Len(out.rows)}
        IN /\ result.raised = "none"
           /\ out.cols = {"title", "artist", "popularity"}
           /\ Len(out.rows) <= call.top_n
           /\ Len(out.rows) = Min(call.top_n, Cardinality(inYear))
           /\ \A k \in 1..Len(out.rows) :
                 \E i \in inYear : out.rows[k] = cut(all_data_df.rows[i])
           /\ Cardinality(titles) = Len(out.rows)
           /\ \A k, l \in 1..Len(out.rows) :
                 k < l => AtLeast(out.rows[k]["popularity"], out.rows[l]["popularity"])
           /\ Len(out.rows) >= 1 =>
                 \A i \in inYear : AtLeast(out.rows[1]["popularity"],
                                           all_data_df.rows[i]["popularity"])

\* of two rows of the year the second, more popular one alone is returned
C9_Witness ==
    /\ Called("get_most_popular_songs")
    /\ HasCols({"year", "title", "artist", "popularity"})
    /\ call.top_n = 1
    /\ Cardinality(RowsOfYear(call.year)) = 2
    /\ Len(result.value.rows) = 1
    /\ result.value.rows[1]["title"] = TitleOf(2)

\* the columns a chart query references
Referenced(fn) ==
    IF fn \in {"get_most_popular_songs", "get_most_popular_song_by_year"}
    THEN {"year", "title", "artist", "popularity"}
    ELSE {"year", "artist", "popularity"}

\* the filter of the call selects no row of the table
NoMatch ==
    IF call.fn = "compare_artists"
    THEN \A i \in 1..Len(all_data_df.rows) :
            all_data_df.rows[i]["artist"] \notin {Cell(call.artist1), Cell(call.artist2)}
    ELSE RowsOfYear(call.year) = {}

\* the empty result of a chart query
EmptyResult ==
    IF call.fn = "get_most_popular_song_by_year" THEN result.value = <<NoneCell, NoneCell>>
    ELSE Empty(result.value)

ChartQueries ==
    {"get_top_artists", "get_most_popular_songs", "get_most_popular_song_by_year",
     "compare_artists"}

\* C10: over every subset of the columns, no chart query raises; when a column
\* it references is absent, or when its filter matches no row, get_top_artists,
\* get_most_popular_songs and compare_artists return an empty table and
\* get_most_popular_song_by_year returns (None, None).
C10_MissingColumnOrNoMatch ==
    (pc = "answered" /\ call.fn \in ChartQueries) =>
        /\ result.raised = "none"
        /\ ~HasCols(Referenced(call.fn)) => EmptyResult
        /\ (HasCols(Referenced(call.fn)) /\ NoMatch) => EmptyResult

\* a table with rows of the year asked for but without the artist column
C10_Witness ==
    /\ Called("get_top_artists")
    /\ HasCols({"year", "popularity", "title"})
    /\ ~HasCols({"artist"})
    /\ RowsOfYear(call.year) # {}
    /\ call.top_n > 0
    /\ result = Ok(EmptyDataFrame)

----------------------------------------------------------------------------
(* The merged table is read-only for the queries *)

\* the step leaves the table and every object the script holds as they were,
\* and the call ends as a run of its function's body on those objects ends
FrameOfCall(m, held) ==
    /\ Outcome(m) = result'
    /\ SubSeq(m.heap, 1, Len(held)) = held

====
